---- MODULE Spec2Model ----
(***************************************************************************)
(* Model of the medical claim denial classifier: the CLI entry point       *)
(* (main, parseArguments, processClaims, the signal handler), the LLM      *)
(* client (callAPI, parseLLMResponse, classifyDenial, createLLMClient) and *)
(* the file utilities (readClaims, writeClaims, validateFilePath).         *)
(*                                                                         *)
(* Strings are sequences of text parts, so that template literals and      *)
(* string concatenation are sequence concatenation.  JSON values are       *)
(* tagged records [t |-> tag, v |-> payload]; a JSON object's payload is a *)
(* function from its own keys to JSON values.                              *)
(***************************************************************************)
EXTENDS Integers, Sequences, FiniteSets, TLC

(***************************************************************************)
(* Bounds of the model                                                     *)
(***************************************************************************)
MaxClaims == 2

(***************************************************************************)
(* Program constants                                                       *)
(***************************************************************************)
MaxAttempts == 3
BackoffBaseMs == 500
PacingMs == 500

(***************************************************************************)
(* JSON values                                                             *)
(***************************************************************************)
JUndef == [t |-> "undef", v |-> 0]
JNull == [t |-> "null", v |-> 0]
JNum == [t |-> "num", v |-> 7]
JStr(s) == [t |-> "str", v |-> s]
JArr(seq) == [t |-> "arr", v |-> seq]
JObj(f) == [t |-> "obj", v |-> f]
EmptyObj == JObj([k \in {} |-> JUndef])

\* obj[key] on a value that is not null/undefined: own property or undefined
Get(val, key) ==
    IF val.t = "obj" /\ key \in DOMAIN val.v THEN val.v[key] ELSE JUndef

\* Object.hasOwn(val, key) for the keys the program asks about
HasOwn(val, key) == val.t = "obj" /\ key \in DOMAIN val.v

\* JavaScript falsiness: !val
Falsy(val) ==
    \/ val.t \in {"undef", "null"}
    \/ val.t = "str" /\ val.v = <<>>
    \/ val.t = "num" /\ val.v = 0

IsArray(val) == val.t = "arr"

\* { ...a, ...b }: the keys of both, b's value where both have the key
Spread(a, b) ==
    [k \in (DOMAIN a) \cup (DOMAIN b) |-> IF k \in DOMAIN b THEN b[k] ELSE a[k]]

\* String.prototype.trim on the strings of the model
IsSpace(part) == part \in {" ", "\t"}

RECURSIVE TrimStart(_)
TrimStart(s) ==
    IF s = <<>> THEN <<>>
    ELSE IF IsSpace(Head(s)) THEN TrimStart(Tail(s)) ELSE s

RECURSIVE TrimEnd(_)
TrimEnd(s) ==
    IF s = <<>> THEN <<>>
    ELSE IF IsSpace(s[Len(s)]) THEN TrimEnd(SubSeq(s, 1, Len(s) - 1)) ELSE s

Trim(s) == TrimEnd(TrimStart(s))

(***************************************************************************)
(* types.ts                                                                *)
(***************************************************************************)
Category ==
    { <<"Eligibility">>, <<"Coding Error">>, <<"Prior Authorization">>,
      <<"Incorrect Patient Info">>, <<"Payer Specific Rule">>, <<"Other">> }

(***************************************************************************)
(* fileUtils.ts                                                            *)
(***************************************************************************)
\* validateFilePath(filePath, fileType): the resolved path or a thrown error
EndsWithJson(path) == Len(path) > 0 /\ path[Len(path)] = ".json"

validateFilePath(path) ==
    IF path = <<>> THEN [ok |-> FALSE, msg |-> <<"No file path provided">>]
    ELSE IF ~EndsWithJson(path)
         THEN [ok |-> FALSE, msg |-> <<"File does not end with .json">>]
         ELSE [ok |-> TRUE, path |-> <<"/cwd/">> \o path]

\* variant of isValidClaimInput that tests the presence of the fields only
isValidClaimInputNoTrim(obj) ==
    obj.t = "obj" /\ \A field \in {"id", "denial_note"} : HasOwn(obj, field)

\* isValidClaimInput(obj): TRUE, or a throw (FALSE).  Object.hasOwn(null, f)
\* and a .trim() on a value that is not a string raise a TypeError.
FieldBad(obj, field) ==
    IF ~HasOwn(obj, field) THEN TRUE
    ELSE IF obj.v[field].t # "str" THEN TRUE
         ELSE Trim(obj.v[field].v) = <<>>

isValidClaimInput(obj) ==
    IF obj.t \notin {"obj", "arr", "null"} THEN FALSE
    ELSE IF obj.t = "null" THEN FALSE
         ELSE ~(\E field \in {"id", "denial_note"} : FieldBad(obj, field))

\* readClaims(filePath): the parsed array, or a throw of access, readFile,
\* JSON.parse, the Array.isArray test or isValidClaimInput
readClaims(file) ==
    IF ~file.readable THEN [ok |-> FALSE, msg |-> <<"EACCES">>]
    ELSE IF ~file.wellFormed
         THEN [ok |-> FALSE, msg |-> <<"Unexpected token">>]
         ELSE IF ~IsArray(file.json)
              THEN [ok |-> FALSE, msg |-> <<"Invalid content format">>]
              ELSE IF \E i \in 1..Len(file.json.v) :
                          ~isValidClaimInput(file.json.v[i])
                   THEN [ok |-> FALSE,
                         msg |-> <<"Claim is not formatted correctly">>]
                   ELSE [ok |-> TRUE, claims |-> file.json.v]

(***************************************************************************)
(* llmClient: parseLLMResponse, callAPI, classifyDenial, createLLMClient   *)
(***************************************************************************)
\* A string handed to JSON.parse is described by what JSON.parse makes of
\* it: a SyntaxError (wellFormed = FALSE) or the value json.
Text(wf, val) == [t |-> "text", wellFormed |-> wf, json |-> val]

Throw(message) == [ok |-> FALSE, msg |-> message]

SomeNotString(arr) == \E i \in 1..Len(arr.v) : arr.v[i].t # "str"

\* variant of parseLLMResponse that lets unknown categories through
parseLLMResponseAnyCategory(response) ==
    IF ~response.wellFormed THEN Throw(<<"Unexpected token in JSON">>)
    ELSE LET responseJSON == response.json
             categories == Get(responseJSON, "categories")
             extracted == Get(responseJSON, "extracted_fields")
         IN  IF responseJSON.t = "null"
             THEN Throw(<<"Cannot read properties of null (reading 'categories')">>)
             ELSE IF \/ Falsy(categories)
                     \/ ~IsArray(categories)
                     \/ SomeNotString(categories)
             THEN Throw(<<"Incorrect categories format in LLM Response">>)
             ELSE IF \/ Falsy(extracted)
                     \/ ~(\A field \in {"payer", "cpt_codes", "suggested_action"} :
                             HasOwn(extracted, field))
             THEN Throw(<<"Incorrect extracted_fields format in LLM Response">>)
             ELSE IF \/ ~IsArray(Get(extracted, "cpt_codes"))
                     \/ SomeNotString(Get(extracted, "cpt_codes"))
             THEN Throw(<<"Incorrect cpt_codes in LLM Response">>)
             ELSE [ok |-> TRUE, value |-> responseJSON]

\* parseLLMResponse(response): the parsed value, or the first throw
parseLLMResponse(response) ==
    IF ~response.wellFormed THEN Throw(<<"Unexpected token in JSON">>)
    ELSE LET responseJSON == response.json
             categories == Get(responseJSON, "categories")
             extracted == Get(responseJSON, "extracted_fields")
         IN  IF responseJSON.t = "null"
             THEN Throw(<<"Cannot read properties of null (reading 'categories')">>)
             ELSE IF \/ Falsy(categories)
                     \/ ~IsArray(categories)
                     \/ SomeNotString(categories)
             THEN Throw(<<"Incorrect categories format in LLM Response">>)
             ELSE IF \E i \in 1..Len(categories.v) :
                         categories.v[i].v \notin Category
             THEN Throw(<<"Invalid category values in LLM Response">>)
             ELSE IF \/ Falsy(extracted)
                     \/ ~(\A field \in {"payer", "cpt_codes", "suggested_action"} :
                             HasOwn(extracted, field))
             THEN Throw(<<"Incorrect extracted_fields format in LLM Response">>)
             ELSE IF \/ ~IsArray(Get(extracted, "cpt_codes"))
                     \/ SomeNotString(Get(extracted, "cpt_codes"))
             THEN Throw(<<"Incorrect cpt_codes in LLM Response">>)
             ELSE [ok |-> TRUE, value |-> responseJSON]

\* variant of HasStringContent that also wants the content to parse
HasStringContentAndJson(outcome) ==
    outcome.k = "response" /\ outcome.content.t = "text"
        /\ outcome.content.wellFormed

\* callAPI, one attempt: the test of lines 318-325 on what axios.post gave
HasStringContent(outcome) ==
    outcome.k = "response" /\ outcome.content.t = "text"

\* variant of AttemptError that forgets why the request was rejected
AttemptErrorGeneric(outcome) ==
    <<"Malformed response from OpenRouter API">>

\* the error caught at line 330 for an attempt that did not return content
AttemptError(outcome) ==
    IF outcome.k = "reject" THEN outcome.msg
    ELSE <<"Malformed response from OpenRouter API">>

\* variant of RetryAfter with the loop bound off by one
RetryAfterExtra(attemptNo) == attemptNo <= MaxAttempts

\* callAPI: whether a failed attempt is followed by another one
RetryAfter(attemptNo) == attemptNo < MaxAttempts

\* variant of BackoffDelay with the exponent off by one
BackoffDelayOffByOne(attemptNo) == BackoffBaseMs * (2 ^ attemptNo)

\* callAPI: the setTimeout of line 335
BackoffDelay(attemptNo) == BackoffBaseMs * (2 ^ (attemptNo - 1))

\* callAPI: the error thrown at line 340
callAPIError(lastErr) ==
    Throw(<<"OpenRouter API call failed after 3 attempts: ">> \o lastErr)

\* variant of classifyDenial whose error leaves the cause out
classifyDenialNoCause(claim, api) ==
    LET parsed == IF api.ok THEN parseLLMResponse(api.content) ELSE api
    IN  IF parsed.ok
        THEN [ok |-> TRUE,
              value |-> JObj(Spread(claim.v,
                  [categories |-> Get(parsed.value, "categories"),
                   extracted_fields |-> Get(parsed.value, "extracted_fields")]))]
        ELSE Throw(<<"Failed to classify claim denial (id: ">> \o claim.v["id"].v
                   \o <<")">>)

\* classifyDenial, given what callAPI returned or threw
classifyDenial(claim, api) ==
    LET parsed == IF api.ok THEN parseLLMResponse(api.content) ELSE api
    IN  IF parsed.ok
        THEN [ok |-> TRUE,
              value |-> JObj(Spread(claim.v,
                  [categories |-> Get(parsed.value, "categories"),
                   extracted_fields |-> Get(parsed.value, "extracted_fields")]))]
        ELSE Throw(<<"Failed to classify claim denial (id: ">> \o claim.v["id"].v
                   \o <<"): ">> \o parsed.msg)

\* variant of ClaimRecord whose placeholder leaves the claim's fields out
ClaimRecordNoSpread(claim, api) ==
    LET output == classifyDenial(claim, api)
    IN  IF output.ok THEN output.value
        ELSE JObj([categories |-> JArr(<<>>),
                   extracted_fields |-> EmptyObj,
                   error |-> JStr(output.msg)])

\* processClaims, one iteration up to the push: the record appended
ClaimRecord(claim, api) ==
    LET output == classifyDenial(claim, api)
    IN  IF output.ok THEN output.value
        ELSE JObj(Spread(claim.v,
                 [categories |-> JArr(<<>>),
                  extracted_fields |-> EmptyObj,
                  error |-> JStr(output.msg)]))

\* createLLMClient(): throws when no key is provided
createLLMClient(key) ==
    IF Falsy(key) THEN Throw(<<"No API key provided">>) ELSE [ok |-> TRUE]

\* parseArguments(): the two paths, or process.exit(1)
parseArguments(args) ==
    IF Len(args) # 2 THEN [ok |-> FALSE]
    ELSE IF ~validateFilePath(args[1]).ok \/ ~validateFilePath(args[2]).ok
         THEN [ok |-> FALSE]
         ELSE [ok |-> TRUE,
               inputPath |-> validateFilePath(args[1]).path,
               outputPath |-> validateFilePath(args[2]).path]

(***************************************************************************)
(* The environment of a run: command line, credential, input file and the  *)
(* replies of the HTTP endpoint                                            *)
(***************************************************************************)
Str(x) == JStr(<<x>>)

ClaimA == JObj([id |-> Str("A"), denial_note |-> Str("CPT code invalid")])
ClaimB == JObj([id |-> Str("B"), denial_note |-> Str("Not eligible")])
\* a claim of the input file that carries a key beyond id and denial_note
ClaimX == JObj([id |-> Str("X"), denial_note |-> Str("Resubmitted"),
                error |-> Str("stale")])
ClaimBlankId == JObj([id |-> JStr(<<" ">>), denial_note |-> Str("Not eligible")])
ClaimNoNote == JObj([id |-> Str("A")])
ClaimNumId == JObj([id |-> JNum, denial_note |-> Str("Not eligible")])

ValidElements == {ClaimA, ClaimB, ClaimX}
InvalidElements == {ClaimBlankId, ClaimNoNote, ClaimNumId, JNull, Str("A")}
Elements == ValidElements \cup InvalidElements

SeqsUpTo(S, n) == UNION {[1..m -> S] : m \in 0..n}

InputFiles ==
    {[readable |-> FALSE, wellFormed |-> FALSE, json |-> JNull],
     [readable |-> TRUE, wellFormed |-> FALSE, json |-> JNull],
     [readable |-> TRUE, wellFormed |-> TRUE, json |-> ClaimA]}
    \cup {[readable |-> TRUE, wellFormed |-> TRUE, json |-> JArr(elems)] :
             elems \in SeqsUpTo(Elements, MaxClaims)}

JsonPath == <<"claims", ".json">>
Argvs ==
    {<<>>, <<JsonPath>>, <<JsonPath, JsonPath>>, <<JsonPath, <<"out">> >>,
     << <<>>, JsonPath>>, <<JsonPath, JsonPath, JsonPath>>}

EnvKeys == {JUndef, JStr(<<>>), Str("sk-key")}

ReplyCoding ==
    Text(TRUE, JObj([categories |-> JArr(<<Str("Coding Error")>>),
                     extracted_fields |-> JObj([payer |-> JNull,
                                                cpt_codes |-> JArr(<<>>),
                                                suggested_action |-> Str("Resubmit")])]))
ReplyTwo ==
    Text(TRUE, JObj([categories |-> JArr(<<Str("Other"), Str("Eligibility")>>),
                     extracted_fields |-> JObj([payer |-> Str("Aetna"),
                                                cpt_codes |-> JArr(<<Str("99213")>>),
                                                suggested_action |-> JNull])]))
ReplyNotJson == Text(FALSE, JNull)
ReplyBadCategory ==
    Text(TRUE, JObj([categories |-> JArr(<<Str("Other"), Str("Fraud")>>),
                     extracted_fields |-> JObj([payer |-> JNull,
                                                cpt_codes |-> JArr(<<>>),
                                                suggested_action |-> JNull])]))

Replies == {ReplyCoding, ReplyTwo, ReplyNotJson, ReplyBadCategory}

\* what one axios.post can give: a rejection (timeout, non-2xx status), a
\* body without a string choices[0].message.content, or a body with one
HttpOutcomes ==
    {[k |-> "reject", msg |-> <<"timeout of 30000ms exceeded">>],
     [k |-> "reject", msg |-> <<"Request failed with status code 500">>],
     [k |-> "response", content |-> JUndef]}
    \cup {[k |-> "response", content |-> r] : r \in Replies}

(***************************************************************************)
(* State                                                                   *)
(***************************************************************************)
VARIABLES
    argv,        \* process.argv.slice(2)
    envKey,      \* process.env.OPENROUTER_API_KEY
    inputFile,   \* the file at inputPath
    script,      \* a stub transport's outcomes, by request number of a
                 \* classification; <<>> for an endpoint that answers freely
    response,    \* parseLLMResponse on its own: its argument
    parsed,      \* parseLLMResponse on its own: what it returned or threw
    pc,          \* where the run is suspended
    claims,      \* main: claims
    results,     \* processClaims: results
    processed,   \* processClaims: processed
    attempt,     \* callAPI: attempt
    lastError,   \* callAPI: lastError
    outFile,     \* the file at outputPath as this run wrote it
    exitCode,    \* the code the process ended with, -1 while it runs
    exitCause,   \* which process.exit (or the return of main) ended the run
    requests,    \* history: per claim, the axios.post calls issued
    calls,       \* history: per claim, what each settled axios.post gave
    contents,    \* history: per claim, the content callAPI returned
    failed,      \* history: per record, whether the catch of processClaims ran
    batchDone,   \* history: processClaims has returned
    delays,      \* history: per claim, the backoff delays of its callAPI
    pacings,     \* history: the pacing sleeps started, in ms
    inFlight,    \* history: the axios.post calls issued and not yet settled
    writes       \* history: the writeFile calls that wrote the output

vars ==
    <<argv, envKey, inputFile, script, response, parsed, pc, claims, results,
      processed, attempt, lastError, outFile, exitCode, exitCause, requests,
      calls, contents, failed, batchDone, delays, pacings, inFlight, writes>>

env == <<argv, envKey, inputFile, script, response, parsed>>
batch == <<claims, results, processed, failed, batchDone>>
call == <<attempt, lastError>>
history == <<requests, calls, contents, delays, pacings, inFlight>>
output == <<outFile, writes>>

NoFile == [written |-> FALSE, data |-> <<>>]

NotParsed == [done |-> FALSE]

\* nothing read, classified, logged or written yet
Idle ==
    /\ claims = <<>>
    /\ results = <<>>
    /\ processed = 0
    /\ attempt = 0
    /\ lastError = <<>>
    /\ outFile = NoFile
    /\ exitCode = -1
    /\ exitCause = "none"
    /\ requests = <<>>
    /\ calls = <<>>
    /\ contents = <<>>
    /\ failed = <<>>
    /\ batchDone = FALSE
    /\ delays = <<>>
    /\ pacings = <<>>
    /\ inFlight = 0
    /\ writes = 0

\* the state of a process at its start
Fresh == pc = "start" /\ Idle

Init ==
    /\ argv \in Argvs
    /\ envKey \in EnvKeys
    /\ inputFile \in InputFiles
    /\ script = <<>>
    /\ response = ReplyNotJson
    /\ parsed = NotParsed
    /\ Fresh

\* process.exit(code)
Exit(code, cause) ==
    /\ pc' = "exited"
    /\ exitCode' = code
    /\ exitCause' = cause

\* variant of StartCall whose attempt counter lives on the client
StartCallKeepAttempt ==
    /\ attempt' = IF attempt = 0 THEN 1 ELSE attempt
    /\ lastError' = <<>>
    /\ requests' = Append(requests, 1)
    /\ calls' = Append(calls, <<>>)
    /\ contents' = Append(contents, JUndef)
    /\ delays' = Append(delays, <<>>)
    /\ inFlight' = inFlight + 1
    /\ pc' = "http"

\* variant of StartCall that dispatches the next claim without awaiting
\* this one
StartCallAll ==
    /\ attempt' = 1
    /\ lastError' = <<>>
    /\ requests' = requests \o <<1, 1>>
    /\ calls' = calls \o << <<>>, <<>> >>
    /\ contents' = contents \o <<JUndef, JUndef>>
    /\ delays' = delays \o << <<>>, <<>> >>
    /\ inFlight' = inFlight + 2
    /\ pc' = "http"

\* variant of StartCall that charges the failed attempts of the previous
\* claim to the next one
StartCallSharedBudget ==
    /\ attempt' =
           IF processed = 0 THEN 1
           ELSE LET spent == Cardinality({k \in 1..Len(calls[processed]) :
                                             calls[processed][k] = "failed"})
                IN  IF spent + 1 > MaxAttempts THEN MaxAttempts ELSE spent + 1
    /\ lastError' = <<>>
    /\ requests' = Append(requests, 1)
    /\ calls' = Append(calls, <<>>)
    /\ contents' = Append(contents, JUndef)
    /\ delays' = Append(delays, <<>>)
    /\ inFlight' = inFlight + 1
    /\ pc' = "http"

\* classifyDenial -> callAPI -> first axios.post for the next claim
StartCall ==
    /\ attempt' = 1
    /\ lastError' = <<>>
    /\ requests' = Append(requests, 1)
    /\ calls' = Append(calls, <<>>)
    /\ contents' = Append(contents, JUndef)
    /\ delays' = Append(delays, <<>>)
    /\ inFlight' = inFlight + 1
    /\ pc' = "http"

(***************************************************************************)
(* Actions                                                                 *)
(***************************************************************************)
\* main up to its first await: parseArguments, createLLMClient, then the
\* call of readClaims
MainStart ==
    /\ pc = "start"
    /\ IF ~parseArguments(argv).ok
       THEN Exit(1, "arguments")
       ELSE IF ~createLLMClient(envKey).ok
            THEN Exit(1, "setup")
            ELSE /\ pc' = "reading"
                 /\ UNCHANGED <<exitCode, exitCause>>
    /\ UNCHANGED <<env, batch, call, history, output>>

\* readClaims settles; on success processClaims runs up to its first await
ReadClaimsDone ==
    /\ pc = "reading"
    /\ LET read == readClaims(inputFile)
       IN  IF ~read.ok
           THEN /\ Exit(1, "setup")
                /\ UNCHANGED <<claims, batchDone, call, history>>
           ELSE /\ claims' = read.claims
                /\ UNCHANGED <<exitCode, exitCause>>
                /\ IF Len(read.claims) = 0
                   THEN /\ pc' = "mkdir"
                        /\ batchDone' = TRUE
                        /\ UNCHANGED <<call, history>>
                   ELSE /\ StartCall
                        /\ UNCHANGED <<batchDone, pacings>>
    /\ UNCHANGED <<env, results, processed, failed, output>>

\* variant of FinishClaim that puts the record at the front of results
FinishClaimUnshift(api) ==
    LET claim == claims[processed + 1]
    IN  /\ results' = <<ClaimRecord(claim, api)>> \o results
        /\ failed' = <<~classifyDenial(claim, api).ok>> \o failed
        /\ processed' = processed + 1
        /\ IF processed + 1 < Len(claims)
           THEN /\ pc' = "pacing"
                /\ pacings' = Append(pacings, PacingMs)
                /\ UNCHANGED batchDone
           ELSE /\ pc' = "mkdir"
                /\ batchDone' = TRUE
                /\ UNCHANGED pacings

\* variant of FinishClaim that sleeps after the last claim too
FinishClaimAlwaysPace(api) ==
    LET claim == claims[processed + 1]
    IN  /\ results' = Append(results, ClaimRecord(claim, api))
        /\ failed' = Append(failed, ~classifyDenial(claim, api).ok)
        /\ processed' = processed + 1
        /\ pacings' = Append(pacings, PacingMs)
        /\ IF processed + 1 < Len(claims)
           THEN /\ pc' = "pacing"
                /\ UNCHANGED batchDone
           ELSE /\ pc' = "mkdir"
                /\ batchDone' = TRUE

\* processClaims after classifyDenial settled for the current claim: the
\* push, processed++, and the pacing sleep or the return to main, which
\* calls writeClaims
FinishClaim(api) ==
    LET claim == claims[processed + 1]
    IN  /\ results' = Append(results, ClaimRecord(claim, api))
        /\ failed' = Append(failed, ~classifyDenial(claim, api).ok)
        /\ processed' = processed + 1
        /\ IF processed + 1 < Len(claims)
           THEN /\ pc' = "pacing"
                /\ pacings' = Append(pacings, PacingMs)
                /\ UNCHANGED batchDone
           ELSE /\ pc' = "mkdir"
                /\ batchDone' = TRUE
                /\ UNCHANGED pacings

\* what the endpoint may give to the request in flight: anything, or what
\* the stub transport holds for this request of the classification
Answers(outcome) ==
    IF script = <<>> THEN TRUE
    ELSE outcome = script[requests[processed + 1]]

\* the axios.post in flight settles with outcome
HttpResponse(outcome) ==
    /\ pc = "http"
    /\ Answers(outcome)
    /\ inFlight' = inFlight - 1
    /\ LET i == processed + 1
       IN  /\ calls' = [calls EXCEPT ![i] =
                  Append(@, IF outcome.k = "response" /\ outcome.content.t = "text"
                            THEN "text" ELSE "failed")]
           /\ IF HasStringContent(outcome)
              THEN /\ contents' = [contents EXCEPT ![i] = outcome.content]
                   /\ FinishClaim([ok |-> TRUE, content |-> outcome.content])
                   /\ UNCHANGED <<call, delays>>
              ELSE /\ lastError' = AttemptError(outcome)
                   /\ UNCHANGED <<attempt, contents>>
                   /\ IF RetryAfter(attempt)
                      THEN /\ delays' = [delays EXCEPT ![i] =
                                  Append(@, BackoffDelay(attempt))]
                           /\ pc' = "backoff"
                           /\ UNCHANGED <<results, failed, processed, batchDone,
                                          pacings>>
                      ELSE /\ FinishClaim(callAPIError(lastError'))
                           /\ UNCHANGED delays
    /\ UNCHANGED <<env, claims, requests, output, exitCode, exitCause>>

\* variant of BackoffFire whose promise is never resolved
BackoffFireLost ==
    /\ pc = "backoff"
    /\ UNCHANGED vars

\* the backoff timer fires: attempt++ and the next axios.post
BackoffFire ==
    /\ pc = "backoff"
    /\ attempt' = attempt + 1
    /\ requests' = [requests EXCEPT ![processed + 1] = @ + 1]
    /\ inFlight' = inFlight + 1
    /\ pc' = "http"
    /\ UNCHANGED <<env, batch, lastError, calls, contents, delays, pacings,
                   output, exitCode, exitCause>>

\* the pacing timer fires: the loop goes on to the next claim
PacingFire ==
    /\ pc = "pacing"
    /\ StartCall
    /\ UNCHANGED <<env, batch, pacings, output, exitCode, exitCause>>

\* writeClaims: mkdir(dirname(filePath), {recursive: true}) settles
MkdirDone(ok) ==
    /\ pc = "mkdir"
    /\ IF ok
       THEN /\ pc' = "writeFile"
            /\ UNCHANGED <<exitCode, exitCause>>
       ELSE Exit(1, "write")
    /\ UNCHANGED <<env, batch, call, history, output>>

\* variant of WriteFileDone that ends with code 1 when a claim failed
WriteFileDoneFailExit(ok) ==
    /\ pc = "writeFile"
    /\ IF ok
       THEN /\ outFile' = [written |-> TRUE, data |-> results]
            /\ writes' = writes + 1
            /\ Exit(IF \E i \in 1..Len(failed) : failed[i] THEN 1 ELSE 0,
                    "completed")
       ELSE /\ Exit(1, "write")
            /\ UNCHANGED output
    /\ UNCHANGED <<env, batch, call, history>>

\* writeClaims: writeFile settles; on success showSummary runs, main
\* returns and the process ends with nothing left to wait for.  writeFile
\* is taken to write the whole text or nothing, and showSummary, which only
\* counts and prints, not to throw.
WriteFileDone(ok) ==
    /\ pc = "writeFile"
    /\ IF ok
       THEN /\ outFile' = [written |-> TRUE, data |-> results]
            /\ writes' = writes + 1
            /\ Exit(0, "completed")
       ELSE /\ Exit(1, "write")
            /\ UNCHANGED output
    /\ UNCHANGED <<env, batch, call, history>>

\* variant of Sigint that saves the records gathered so far before exiting
SigintFlush ==
    /\ pc \in {"reading", "http", "backoff", "pacing", "mkdir", "writeFile"}
    /\ Exit(0, "sigint")
    /\ outFile' = [written |-> TRUE, data |-> results]
    /\ writes' = writes + 1
    /\ UNCHANGED <<env, batch, call, history>>

\* the SIGINT handler, which runs whenever the run is suspended
Sigint ==
    /\ pc \in {"reading", "http", "backoff", "pacing", "mkdir", "writeFile"}
    /\ Exit(0, "sigint")
    /\ UNCHANGED <<env, batch, call, history, output>>

Next ==
    \/ MainStart
    \/ ReadClaimsDone
    \/ \E outcome \in HttpOutcomes : HttpResponse(outcome)
    \/ BackoffFire
    \/ PacingFire
    \/ \E ok \in BOOLEAN : MkdirDone(ok)
    \/ \E ok \in BOOLEAN : WriteFileDone(ok)
    \/ Sigint

Spec == Init /\ [][Next]_vars

(***************************************************************************)
(* A run against a stub transport: a batch of one claim given twice, each  *)
(* classification seeing the same scripted outcomes                        *)
(***************************************************************************)
InitStub ==
    /\ argv = <<JsonPath, JsonPath>>
    /\ envKey = Str("sk-key")
    /\ inputFile \in {[readable |-> TRUE, wellFormed |-> TRUE,
                       json |-> JArr(<<c, c>>)] : c \in ValidElements}
    /\ script \in [1..MaxAttempts -> HttpOutcomes]
    /\ response = ReplyNotJson
    /\ parsed = NotParsed
    /\ Fresh

SpecStub == InitStub /\ [][Next]_vars

(***************************************************************************)
(* Properties                                                              *)
(***************************************************************************)
Records == 1..Len(results)
Started == 1..Len(calls)
FailedAttempts(i) == Cardinality({j \in 1..Len(calls[i]) : calls[i][j] = "failed"})
PlaceholderKeys == {"categories", "extracted_fields", "error"}
ValidReplies == {ReplyCoding, ReplyTwo}
InvalidReplies == {ReplyNotJson, ReplyBadCategory}

\* C1: processClaims returns exactly one record per input claim, and the
\* record at position i carries the id and the denial_note of the claim at
\* position i, whatever mix of successes and failures the batch saw.
C1_OutputMirrorsInput ==
    /\ Len(results) <= Len(claims)
    /\ \A i \in Records :
          /\ Get(results[i], "id") = Get(claims[i], "id")
          /\ Get(results[i], "denial_note") = Get(claims[i], "denial_note")
    /\ batchDone => Len(results) = Len(claims)

C1_Witness ==
    /\ batchDone
    /\ claims = <<ClaimB, ClaimA>>
    /\ failed = <<TRUE, FALSE>>

\* C2: a claim whose classification fails (attempts exhausted, or a reply
\* that does not parse or validate) gets a record with the claim's own
\* fields, categories = [], extracted_fields = {} and error = the message of
\* the failure, and the batch goes on: only an interruption stops it before
\* every claim was attempted.
C2_FailureIsolated ==
    /\ \A i \in Records : failed[i] =>
          /\ DOMAIN results[i].v = (DOMAIN claims[i].v) \cup PlaceholderKeys
          /\ \A k \in (DOMAIN claims[i].v) \ PlaceholderKeys :
                 results[i].v[k] = claims[i].v[k]
          /\ Get(results[i], "categories") = JArr(<<>>)
          /\ Get(results[i], "extracted_fields") = EmptyObj
          /\ Get(results[i], "error").t = "str"
          /\ LET message == Get(results[i], "error").v
             IN  /\ Len(message) >= 4
                 /\ SubSeq(message, 1, 3) =
                        <<"Failed to classify claim denial (id: ">>
                        \o claims[i].v["id"].v \o <<"): ">>
                 /\ contents[i] = ReplyNotJson =>
                        SubSeq(message, 4, Len(message)) = <<"Unexpected token in JSON">>
                 /\ contents[i] = ReplyBadCategory =>
                        SubSeq(message, 4, Len(message)) =
                            <<"Invalid category values in LLM Response">>
                 /\ contents[i] = JUndef =>
                        message[4] = "OpenRouter API call failed after 3 attempts: "
    /\ \A i \in Records : (failed[i] /\ i < Len(claims)) =>
          \/ Len(requests) > i
          \/ pc = "pacing"
          \/ exitCause = "sigint"
    /\ batchDone => Len(requests) = Len(claims)
    /\ (pc = "exited" /\ processed < Len(claims)) => exitCause = "sigint"

C2_Witness ==
    /\ processed = 2
    /\ failed = <<TRUE, TRUE>>
    /\ contents[1] = JUndef
    /\ contents[2] = ReplyBadCategory

\* C3: in every output record, error is set if and only if the
\* classification of that claim failed, and a record with error set has
\* empty categories and empty extracted_fields.
C3_ErrorIffFailed ==
    \A i \in Records :
        /\ HasOwn(results[i], "error") <=> failed[i]
        /\ HasOwn(results[i], "error") =>
              /\ Get(results[i], "categories") = JArr(<<>>)
              /\ Get(results[i], "extracted_fields") = EmptyObj

\* C4: a claim whose reply satisfies the schema gets a record without
\* error that keeps the claim's id and denial_note and whose categories and
\* extracted_fields are the parsed values, in the order of the reply.
C4_SuccessRecordExact ==
    \A i \in Records : contents[i] \in ValidReplies =>
        /\ ~HasOwn(results[i], "error")
        /\ Get(results[i], "id") = Get(claims[i], "id")
        /\ Get(results[i], "denial_note") = Get(claims[i], "denial_note")
        /\ Get(results[i], "categories") = Get(contents[i].json, "categories")
        /\ Get(results[i], "extracted_fields") =
               Get(contents[i].json, "extracted_fields")

\* C5: one callAPI makes between 1 and 3 requests; an attempt that gives a
\* string content is the last one and its content is what callAPI returns;
\* callAPI raises only when exactly 3 attempts have failed.
C5_AttemptBudget ==
    \A i \in Started :
        LET n == Len(calls[i])
        IN  /\ requests[i] \in 1..3
            /\ n <= requests[i] /\ requests[i] <= n + 1
            /\ \A j \in 1..n : calls[i][j] = "text" => (j = n /\ requests[i] = n)
            /\ i <= processed =>
                  \/ /\ calls[i][n] = "text"
                     /\ contents[i].t = "text"
                     /\ contents[i] \in ValidReplies =>
                            Get(results[i], "categories") =
                                Get(contents[i].json, "categories")
                  \/ /\ calls[i] = <<"failed", "failed", "failed">>
                     /\ contents[i] = JUndef
                     /\ failed[i]
            /\ i > processed =>
                  /\ n < 3
                  /\ \A j \in 1..n : calls[i][j] = "failed"
                  /\ contents[i] = JUndef

C5_Witness ==
    /\ processed = 2
    /\ calls = << <<"failed", "failed", "failed">>, <<"failed", "failed", "text">> >>
    /\ failed = <<TRUE, FALSE>>
    /\ contents[2] = ReplyTwo

\* C6: the delay taken after failed attempt k is 500ms * 2^(k-1) for
\* k = 1, 2; nothing is waited after a success or after the third failure.
C6_BackoffSchedule ==
    \A i \in Started :
        delays[i] = SubSeq(<<500, 1000>>, 1,
                           IF FailedAttempts(i) >= 3 THEN 2 ELSE FailedAttempts(i))

C6_Witness ==
    /\ processed >= 1
    /\ calls[1] = <<"failed", "failed", "failed">>
    /\ delays[1] = <<500, 1000>>

\* C7: once an attempt for a claim gave a string content, no further
\* request is made for that claim, also when the content does not parse or
\* validate: the claim's record is appended at once, as a failure then.
C7_ValidationNotRetried ==
    \A i \in Started :
        \A j \in 1..Len(calls[i]) : calls[i][j] = "text" =>
            /\ j = Len(calls[i])
            /\ requests[i] = j
            /\ i <= processed
            /\ contents[i] \in InvalidReplies =>
                  (failed[i] /\ HasOwn(results[i], "error"))

C7_Witness ==
    /\ processed >= 1
    /\ calls[1] = <<"failed", "text">>
    /\ contents[1] = ReplyBadCategory
    /\ requests[1] = 2
    /\ failed[1]

\* what makes the set-up of a run invalid, stated on the environment
ArgsInvalid == argv # <<JsonPath, JsonPath>>
KeyAbsent == envKey \in {JUndef, JStr(<<>>)}
RootNotArray ==
    inputFile.readable /\ inputFile.wellFormed /\ inputFile.json.t # "arr"
SomeElementInvalid ==
    /\ inputFile.readable /\ inputFile.wellFormed /\ inputFile.json.t = "arr"
    /\ \E i \in 1..Len(inputFile.json.v) : inputFile.json.v[i] \in InvalidElements
InputUnusable == ~inputFile.readable \/ ~inputFile.wellFormed

\* C8: with invalid arguments, no API key, an input root that is not an
\* array, or an element with a missing or blank id or denial_note (the last
\* one included), no HTTP request is ever issued, the output file is never
\* written, and the run, when it ends by itself rather than by an operator's
\* interruption, ends with a non-zero exit code.
C8_SetupErrorsFatal ==
    (ArgsInvalid \/ KeyAbsent \/ RootNotArray \/ SomeElementInvalid) =>
        /\ requests = <<>>
        /\ calls = <<>>
        /\ ~outFile.written /\ writes = 0
        /\ pc \in {"start", "reading", "exited"}
        /\ (pc = "exited" /\ exitCause # "sigint") => exitCode # 0

C8_Witness ==
    /\ ~ArgsInvalid /\ ~KeyAbsent
    /\ inputFile.json = JArr(<<ClaimA, ClaimBlankId>>)
    /\ pc = "exited"
    /\ exitCode = 1
    /\ requests = <<>>

\* C9: the output file is written at most once, only after every claim has
\* been attempted, and then holds all N records; an interruption before
\* the batch is complete ends the run at once and leaves no output file.
C9_NoPartialOutput ==
    /\ writes <= 1
    /\ outFile.written <=> writes = 1
    /\ outFile.written =>
          /\ batchDone
          /\ outFile.data = results
          /\ Len(outFile.data) = Len(claims)
          /\ Len(calls) = Len(claims)
    /\ exitCause = "sigint" =>
          /\ pc = "exited"
          /\ ~batchDone => (~outFile.written /\ writes = 0)

C9_Witness ==
    /\ exitCause = "sigint"
    /\ Len(claims) = 2
    /\ processed = 1
    /\ ~outFile.written

\* C10: a run that attempted every claim and wrote the output ends with
\* code 0 however many claims failed; a run that hits a fatal set-up error or
\* an output write error ends with a non-zero code, and the write error comes
\* only after every claim was processed.
C10_ExitCodes ==
    /\ (pc = "exited" /\ outFile.written) =>
          /\ exitCode = 0
          /\ processed = Len(claims)
    /\ exitCause \in {"arguments", "setup", "write"} =>
          /\ pc = "exited"
          /\ exitCode # 0
    /\ exitCause \in {"arguments", "setup"} =>
          /\ requests = <<>>
          /\ ~batchDone
    /\ exitCause = "write" =>
          /\ batchDone
          /\ processed = Len(claims)
          /\ ~outFile.written
    /\ (pc = "exited" /\ exitCause # "sigint"
          /\ (ArgsInvalid \/ KeyAbsent \/ InputUnusable \/ RootNotArray
                \/ SomeElementInvalid)) =>
          exitCode # 0

C10_Witness ==
    /\ pc = "exited"
    /\ outFile.written
    /\ failed = <<TRUE, TRUE>>
    /\ exitCode = 0

(***************************************************************************)
(* A run whose requests, timers and file operations all settle             *)
(***************************************************************************)
InitFair ==
    /\ argv = <<JsonPath, JsonPath>>
    /\ envKey = Str("sk-key")
    /\ inputFile \in {[readable |-> TRUE, wellFormed |-> TRUE, json |-> JArr(elems)] :
                          elems \in SeqsUpTo({ClaimA}, MaxClaims)}
    /\ script = <<>>
    /\ response = ReplyNotJson
    /\ parsed = NotParsed
    /\ Fresh

\* every promise the run awaits settles and every timer fires; nothing is
\* assumed about SIGINT
Fairness ==
    /\ WF_vars(MainStart)
    /\ WF_vars(ReadClaimsDone)
    /\ WF_vars(\E outcome \in HttpOutcomes : HttpResponse(outcome))
    /\ WF_vars(BackoffFire)
    /\ WF_vars(PacingFire)
    /\ WF_vars(\E ok \in BOOLEAN : MkdirDone(ok))
    /\ WF_vars(\E ok \in BOOLEAN : WriteFileDone(ok))

SpecFair == InitFair /\ [][Next]_vars /\ Fairness

(***************************************************************************)
(* parseLLMResponse on its own: one call on each reply of ParseInputs      *)
(***************************************************************************)
\* an object of the given own keys; JUndef stands for "key not present"
ObjOf(f) == JObj([k \in {key \in DOMAIN f : f[key] # JUndef} |-> f[k]])

CategoriesValues ==
    { JUndef, JNull, Str("Coding Error"), EmptyObj,
      JArr(<<>>),
      JArr(<<Str("Coding Error")>>),
      JArr(<<Str("Other"), Str("Eligibility")>>),
      JArr(<<JNum>>),
      JArr(<<Str("Other"), JNum>>),
      JArr(<<Str("Fraud")>>),
      JArr(<<Str("Other"), Str("Fraud")>>) }

CptCodesValues ==
    { JUndef, JNull, Str("99213"), EmptyObj,
      JArr(<<>>), JArr(<<Str("99213")>>), JArr(<<JNum>>),
      JArr(<<Str("99213"), JNum>>) }

ExtractedFieldsValues ==
    { JUndef, JNull, JNum, Str("none"), JArr(<<>>), EmptyObj }
    \cup { ObjOf([payer |-> payer, cpt_codes |-> codes, suggested_action |-> action]) :
               payer \in {JUndef, JNull, Str("Aetna")},
               codes \in CptCodesValues,
               action \in {JUndef, JNull} }

\* the strings parseLLMResponse is called on
ParseInputs ==
    { Text(FALSE, JNull), Text(TRUE, JNull), Text(TRUE, JNum),
      Text(TRUE, Str("Coding Error")), Text(TRUE, JArr(<<>>)),
      Text(TRUE, JArr(<<Str("Other")>>)) }
    \cup { Text(TRUE, ObjOf([categories |-> c, extracted_fields |-> e])) :
               c \in CategoriesValues, e \in ExtractedFieldsValues }

InitParse ==
    /\ argv = <<JsonPath, JsonPath>>
    /\ envKey = Str("sk-key")
    /\ inputFile = [readable |-> TRUE, wellFormed |-> TRUE, json |-> JArr(<<>>)]
    /\ script = <<>>
    /\ response \in ParseInputs
    /\ parsed = NotParsed
    /\ pc = "parse"
    /\ Idle

\* one call of parseLLMResponse(response)
ParseReply ==
    /\ pc = "parse"
    /\ parsed' = [done |-> TRUE, out |-> parseLLMResponse(response)]
    /\ pc' = "parsed"
    /\ UNCHANGED <<argv, envKey, inputFile, script, response>>
    /\ UNCHANGED <<batch, call, history, output, exitCode, exitCause>>

NextParse == ParseReply

SpecParse == InitParse /\ [][NextParse]_vars

TimeoutOutcome == [k |-> "reject", msg |-> <<"timeout of 30000ms exceeded">>]
StatusOutcome == [k |-> "reject", msg |-> <<"Request failed with status code 500">>]
NoContentOutcome == [k |-> "response", content |-> JUndef]
ThreeFailures == <<"failed", "failed", "failed">>
ClaimIds == {"A", "B", "X"}

\* C11: two classifications of the same claim against transports that
\* show the same outcomes give the same record (the same output or the same
\* error message), whatever the client classified before.
C11_SameInputsSameResult ==
    (Len(results) = 2 /\ claims[1] = claims[2]) =>
        /\ results[1] = results[2]
        /\ failed[1] = failed[2]
        /\ requests[1] = requests[2]

C11_Witness ==
    /\ Len(results) = 2
    /\ claims[1] = claims[2]
    /\ calls = << <<"failed", "failed", "text">>, <<"failed", "failed", "text">> >>
    /\ ~failed[2]

\* C12: the error of a failed record is the classification error of its
\* own claim: it carries that claim's id, no other claim's id, and then the
\* message of the underlying failure unchanged.
C12_ErrorNamesClaimAndCause ==
    \A i \in Records : failed[i] =>
        LET message == Get(results[i], "error").v
            cause == SubSeq(message, 4, Len(message))
        IN  /\ Len(message) >= 4
            /\ message[1] = "Failed to classify claim denial (id: "
            /\ <<message[2]>> = claims[i].v["id"].v
            /\ message[3] = "): "
            /\ \A p \in 1..Len(message) :
                   message[p] \in ClaimIds => <<message[p]>> = claims[i].v["id"].v
            /\ contents[i] = ReplyNotJson => cause = <<"Unexpected token in JSON">>
            /\ contents[i] = ReplyBadCategory =>
                   cause = <<"Invalid category values in LLM Response">>
            /\ contents[i] = JUndef =>
                   /\ Len(cause) = 2
                   /\ cause[1] = "OpenRouter API call failed after 3 attempts: "
                   /\ cause[2] \in {"timeout of 30000ms exceeded",
                                    "Request failed with status code 500",
                                    "Malformed response from OpenRouter API"}
                   /\ Len(calls) = i => <<cause[2]>> = lastError

C12_Witness ==
    /\ processed = 2
    /\ claims = <<ClaimA, ClaimB>>
    /\ failed = <<TRUE, TRUE>>
    /\ contents[1] = ReplyNotJson
    /\ contents[2] = JUndef

\* the five validation rules of the classifier's reply, each one assuming
\* the rules before it
AllStrings(arr) == \A i \in 1..Len(arr.v) : arr.v[i].t = "str"

Rule1(reply) == reply.wellFormed /\ reply.json.t = "obj"

Rule2(reply) ==
    /\ "categories" \in DOMAIN reply.json.v
    /\ reply.json.v["categories"].t = "arr"
    /\ AllStrings(reply.json.v["categories"])

Rule3(reply) ==
    \A i \in 1..Len(reply.json.v["categories"].v) :
        reply.json.v["categories"].v[i].v \in Category

Rule4(reply) ==
    /\ "extracted_fields" \in DOMAIN reply.json.v
    /\ reply.json.v["extracted_fields"].t = "obj"
    /\ {"payer", "cpt_codes", "suggested_action"}
           \subseteq DOMAIN reply.json.v["extracted_fields"].v

Rule5(reply) ==
    /\ reply.json.v["extracted_fields"].v["cpt_codes"].t = "arr"
    /\ AllStrings(reply.json.v["extracted_fields"].v["cpt_codes"])

\* the first rule the reply violates, 0 when it violates none
FirstViolated(reply) ==
    IF ~Rule1(reply) THEN 1
    ELSE IF ~Rule2(reply) THEN 2
    ELSE IF ~Rule3(reply) THEN 3
    ELSE IF ~Rule4(reply) THEN 4
    ELSE IF ~Rule5(reply) THEN 5
    ELSE 0

\* the rule an error message names, 0 when it names none
RuleNamed(message) ==
    IF message = <<"Unexpected token in JSON">> THEN 1
    ELSE IF message = <<"Incorrect categories format in LLM Response">> THEN 2
    ELSE IF message = <<"Invalid category values in LLM Response">> THEN 3
    ELSE IF message = <<"Incorrect extracted_fields format in LLM Response">> THEN 4
    ELSE IF message = <<"Incorrect cpt_codes in LLM Response">> THEN 5
    ELSE 0

MixedCategories == JArr(<<Str("Other"), Str("Fraud")>>)

\* C13: parseLLMResponse accepts a reply exactly when it violates none of
\* the five rules, and then returns the parsed value as it is; a reply with
\* an unknown category among valid ones is rejected, not trimmed.
C13_AcceptsIffRulesHold ==
    parsed.done =>
        /\ parsed.out.ok <=> FirstViolated(response) = 0
        /\ parsed.out.ok => parsed.out.value = response.json
        /\ Get(response.json, "categories") = MixedCategories => ~parsed.out.ok

C13_Witness ==
    /\ parsed.done
    /\ ~parsed.out.ok
    /\ response = ReplyBadCategory

\* C14: a reply that violates a rule is refused with an error that names
\* the first rule it violates, a top-level null, array, string or number
\* included.
C14_ErrorNamesRule ==
    (parsed.done /\ FirstViolated(response) # 0) =>
        /\ ~parsed.out.ok
        /\ RuleNamed(parsed.out.msg) = FirstViolated(response)

\* the message of the error of one failed attempt
FailureMessage(outcome) ==
    CASE outcome = TimeoutOutcome -> "timeout of 30000ms exceeded"
      [] outcome = StatusOutcome -> "Request failed with status code 500"
      [] outcome = NoContentOutcome -> "Malformed response from OpenRouter API"

\* C15: when all three attempts of a call fail, the error of the call is
\* the API-call failure that names 3 attempts followed by the message of the
\* third attempt's error, whatever the first two attempts failed with.
C15_LastErrorEmbedded ==
    \A i \in Records : (failed[i] /\ calls[i] = ThreeFailures) =>
        Get(results[i], "error").v =
            <<"Failed to classify claim denial (id: ">> \o claims[i].v["id"].v
            \o <<"): ", "OpenRouter API call failed after 3 attempts: ",
                 FailureMessage(script[3])>>

C15_Witness ==
    /\ processed >= 1
    /\ failed[1]
    /\ calls[1] = ThreeFailures
    /\ script = <<TimeoutOutcome, NoContentOutcome, StatusOutcome>>

RECURSIVE SumSeq(_)
SumSeq(seq) == IF seq = <<>> THEN 0 ELSE Head(seq) + SumSeq(Tail(seq))

\* C16: at most one HTTP request is outstanding, only while the run waits
\* for it, and the requests of claim i+1 start only after the record of
\* claim i has been appended.
C16_OneCallInFlight ==
    /\ inFlight \in {0, 1}
    /\ pc = "http" => inFlight = 1
    /\ pc \in {"backoff", "pacing", "mkdir", "writeFile"} => inFlight = 0
    /\ Len(requests) <= Len(results) + 1
    /\ Len(requests) = Len(results) + 1 => pc \in {"http", "backoff", "exited"}

C16_Witness ==
    /\ pc = "http"
    /\ inFlight = 1
    /\ Len(requests) = 2
    /\ Len(results) = 1

\* C17: every pacing sleep is 500ms; one is taken after the record of each
\* claim but the last, before the next claim's first request, and none
\* after the last claim: N-1 in a batch of N >= 1 claims, none when N = 0.
C17_PacingBetweenClaims ==
    /\ \A k \in 1..Len(pacings) : pacings[k] = 500
    /\ Len(pacings) =
           IF processed < Len(claims) THEN processed
           ELSE IF Len(claims) = 0 THEN 0 ELSE Len(claims) - 1
    /\ pc = "pacing" =>
           /\ Len(pacings) = processed
           /\ Len(results) = processed
           /\ Len(requests) = processed
    /\ Len(requests) <= Len(pacings) + 1
    /\ batchDone =>
           Len(pacings) = IF Len(claims) = 0 THEN 0 ELSE Len(claims) - 1

C17_Witness ==
    /\ batchDone
    /\ Len(claims) = 2
    /\ pacings = <<500>>
    /\ failed = <<TRUE, FALSE>>

\* C18: every claim has its own budget of 3 attempts: its counter starts
\* at 1 whatever earlier claims used, it gets 1 to 3 requests, all 3 when
\* every attempt fails, and a finished batch of N claims has issued between
\* N and 3N requests.
C18_BudgetPerClaim ==
    /\ \A i \in 1..Len(requests) : requests[i] \in 1..3
    /\ pc = "http" =>
           /\ attempt = Len(calls[processed + 1]) + 1
           /\ requests[processed + 1] = attempt
    /\ \A i \in Records :
           (\A k \in 1..Len(calls[i]) : calls[i][k] = "failed") => requests[i] = 3
    /\ batchDone =>
           /\ Len(requests) = Len(claims)
           /\ SumSeq(requests) >= Len(claims)
           /\ SumSeq(requests) <= 3 * Len(claims)

C18_Witness ==
    /\ batchDone
    /\ requests = <<3, 3>>
    /\ calls[1] = ThreeFailures
    /\ calls[2] = <<"failed", "failed", "text">>

\* C19: the process ends with code 0 only when the output file holds all
\* N records, and ends with a non-zero code whenever it ends without having
\* written the output.
C19_ZeroOnlyAfterWrite ==
    pc = "exited" =>
        /\ exitCode = 0 => (outFile.written /\ Len(outFile.data) = Len(claims))
        /\ ~outFile.written => exitCode # 0

Interrupted == exitCause = "sigint"

\* C20: when every request settles and every timer fires, the run ends;
\* no claim takes more than 3 attempts and 2 backoff delays, every claim
\* whose classification started gets its record, and the batch reaches the
\* write step with N records, unless the operator interrupts the run.
C20_BatchTerminates ==
    /\ [](\A i \in 1..Len(calls) : Len(calls[i]) <= 3 /\ Len(delays[i]) <= 2)
    /\ \A i \in 1..MaxClaims :
           (Len(requests) >= i) ~> (Len(results) >= i \/ Interrupted)
    /\ (pc = "reading") ~>
           ((batchDone /\ pc = "mkdir" /\ Len(results) = Len(claims)) \/ Interrupted)
    /\ <>(pc = "exited")

C20_Witness ==
    /\ pc = "exited"
    /\ exitCause = "completed"
    /\ calls = <<ThreeFailures, ThreeFailures>>
    /\ delays = << <<500, 1000>>, <<500, 1000>> >>
    /\ Len(outFile.data) = 2

====
